---- MODULE Spec2Model ----
(***************************************************************************)
(* A model of the merge engine of code/2.1-download-and-merge/mergedata.py *)
(* : identifier and FASTA-header normalisation, FASTA parsing, mature-arm  *)
(* and star resolution, derived lengths, and the per-species main loop.    *)
(*                                                                         *)
(* Python strings are modelled as sequences of one-character strings, so   *)
(* that strip, endswith, slicing, replace and the regular expression are   *)
(* computed character by character as the code computes them.              *)
(***************************************************************************)
EXTENDS Integers, Sequences, FiniteSets, TLC

VARIABLES
    csvid,      \* clean_csv_id: [raw, out, done]
    hdr,        \* clean_fasta_header + key construction: [header, out, key, done]
    fasta,      \* parse_fasta: [file, i, st, ret, pc], st its loop variables
    pc,         \* position of the main script
    sp,         \* index into SPECIES_MAP of the species being processed
    obs,        \* what the data folder showed for the current species
    table,      \* the rows of the species' CSV file as loaded
    df,         \* the working table (rows with the columns added so far)
    pre_dict, mat_dict, star_dict,
    pre_seqs, mat_seqs, star_seqs, mat_locs,
    workbook,   \* the sheets written so far, in order: [name, rows]
    log         \* the messages printed so far

vars == <<csvid, hdr, fasta, pc, sp, obs, table, df, pre_dict, mat_dict,
          star_dict, pre_seqs, mat_seqs, star_seqs, mat_locs, workbook, log>>

fnvars == <<csvid, hdr, fasta>>
runvars == <<pc, sp, obs, table, df, pre_dict, mat_dict, star_dict,
             pre_seqs, mat_seqs, star_seqs, mat_locs, workbook, log>>

----------------------------------------------------------------------------
(* Bounds of the model *)

MaxIdTokens == 4
MaxHeaderTokens == 3
MaxLines == 4
MaxSeqLen == 2
MaxRows == 2

----------------------------------------------------------------------------
(* Python values *)

\* None and NaN: one-element sequences whose element is no character, so they
\* differ from every string.
None == <<"None">>
NaN == <<"NaN">>

NA == <<"N", "/", "A">>
ARM_5P == <<"5", "p">>
ARM_3P == <<"3", "p">>

Whitespace == {" ", "\t", "\n"}
Digits == {"0", "1", "2", "3", "4", "5", "6", "7", "8", "9"}

\* bool(x) for x a string or None
Truthy(x) == x # None /\ x # <<>>

\* pd.notna(x) for a scalar cell
NotNa(x) == x # NaN /\ x # None

\* str(x): a missing cell prints as "nan"
PyStr(x) == IF x = NaN THEN <<"n", "a", "n">> ELSE x

RECURSIVE LStrip(_)
LStrip(s) == IF s # <<>> /\ Head(s) \in Whitespace THEN LStrip(Tail(s)) ELSE s

RECURSIVE RStrip(_)
RStrip(s) ==
    IF s # <<>> /\ s[Len(s)] \in Whitespace
    THEN RStrip(SubSeq(s, 1, Len(s) - 1))
    ELSE s

\* s.strip()
Strip(s) == RStrip(LStrip(s))

\* s.endswith(suf)
EndsWith(s, suf) ==
    Len(s) >= Len(suf) /\ SubSeq(s, Len(s) - Len(suf) + 1, Len(s)) = suf

\* s[:-n]
DropLast(s, n) == SubSeq(s, 1, Len(s) - n)

\* s.replace(c, "") for a one-character c
Remove(s, c) == SelectSeq(s, LAMBDA x : x # c)

\* sub in s, for strings
Contains(s, sub) ==
    \E i \in 1..(Len(s) - Len(sub) + 1) : SubSeq(s, i, i + Len(sub) - 1) = sub

\* "".join(parts)
RECURSIVE Join(_)
Join(parts) == IF parts = <<>> THEN <<>> ELSE Head(parts) \o Join(Tail(parts))

\* dictionaries are functions; d.get(k) and d.get(k, default)
EmptyDict == [k \in {} |-> <<>>]
DictPut(d, k, v) == [x \in DOMAIN d \cup {k} |-> IF x = k THEN v ELSE d[x]]
DictGet(d, k) == IF k \in DOMAIN d THEN d[k] ELSE None
DictGetDefault(d, k, default) == IF k \in DOMAIN d THEN d[k] ELSE default

\* all concatenations of at most n tokens
RECURSIVE Concats(_, _)
Concats(tokens, n) ==
    IF n = 0 THEN {<<>>}
    ELSE LET prev == Concats(tokens, n - 1)
         IN  prev \cup {p \o t : p \in prev, t \in tokens}

\* the subsequence of s at the positions in keep
KeepPositions(s, keep) ==
    LET F[i \in 0..Len(s)] ==
            IF i = 0 THEN <<>>
            ELSE IF i \in keep THEN Append(F[i - 1], s[i]) ELSE F[i - 1]
    IN  F[Len(s)]

----------------------------------------------------------------------------
(* clean_csv_id *)

\* variant: the suffix stripped as long as it is there ("mir1 V V" gives "mir1")
clean_csv_id_strip_all(raw_id) ==
    LET RECURSIVE Cut(_)
        Cut(s) == IF EndsWith(s, <<" ", "V">>) THEN Cut(DropLast(s, 2)) ELSE s
    IN  Cut(Strip(PyStr(raw_id)))

clean_csv_id(raw_id) ==
    LET s == Strip(PyStr(raw_id))
    IN  IF EndsWith(s, <<" ", "V">>) THEN DropLast(s, 2) ELSE s

----------------------------------------------------------------------------
(* clean_fasta_header *)

\* the regular expression [-_]v\d+ matches at position i of s
\* variant: the pattern _v\d+, which leaves "-v2" in place
VersionMatchAt_underscore_only(s, i) ==
    /\ i + 2 <= Len(s)
    /\ s[i] = "_"
    /\ s[i + 1] = "v"
    /\ s[i + 2] \in Digits

VersionMatchAt(s, i) ==
    /\ i + 2 <= Len(s)
    /\ s[i] \in {"-", "_"}
    /\ s[i + 1] = "v"
    /\ s[i + 2] \in Digits

\* the last position of the greedy \d+ that starts at or before j
RECURSIVE DigitsEnd(_, _)
DigitsEnd(s, j) ==
    IF j + 1 <= Len(s) /\ s[j + 1] \in Digits THEN DigitsEnd(s, j + 1) ELSE j

\* re.sub(r"[-_]v\d+", "", s): one left-to-right pass over non-overlapping
\* matches; text formed by joining the pieces is not scanned again
RECURSIVE ReSubScan(_, _)
ReSubScan(s, i) ==
    IF i > Len(s) THEN <<>>
    ELSE IF VersionMatchAt(s, i) THEN ReSubScan(s, DigitsEnd(s, i + 2) + 1)
    ELSE <<s[i]>> \o ReSubScan(s, i + 1)

ReSubVersion(s) == ReSubScan(s, 1)

clean_fasta_header(header) ==
    LET raw == Remove(Remove(Strip(header), ">"), "*")
        clean == ReSubVersion(raw)
    IN  IF EndsWith(clean, <<"_", "5", "p">>) THEN <<DropLast(clean, 3), ARM_5P>>
        ELSE IF EndsWith(clean, <<"_", "3", "p">>) THEN <<DropLast(clean, 3), ARM_3P>>
        ELSE IF EndsWith(clean, <<"_", "p", "r", "e">>) THEN <<DropLast(clean, 4), None>>
        ELSE <<clean, None>>

\* f"{base_id}_{arm}" if arm else base_id
FastaKey(base_id, arm) ==
    IF Truthy(arm) THEN base_id \o <<"_">> \o arm ELSE base_id

HeaderKey(line) ==
    LET r == clean_fasta_header(line) IN FastaKey(r[1], r[2])

----------------------------------------------------------------------------
(* parse_fasta *)

\* a file of the data folder: whether it exists, and its lines
MissingFile == [exists |-> FALSE, lines |-> <<>>]
File(lines) == [exists |-> TRUE, lines |-> lines]

\* the loop's variables before the first line
FastaStart == [seqs |-> EmptyDict, current_key |-> None, current_seq |-> <<>>]

\* seqs after "if current_key: seqs[current_key] = ''.join(current_seq)"
FastaStore(st) ==
    IF Truthy(st.current_key)
    THEN DictPut(st.seqs, st.current_key, Join(st.current_seq))
    ELSE st.seqs

\* one iteration of "for line in f"
FastaLine(st, rawline) ==
    LET line == Strip(rawline)
    IN  IF line = <<>> THEN st
        ELSE IF Head(line) = ">"
        THEN [seqs |-> FastaStore(st),
              current_key |-> HeaderKey(line),
              current_seq |-> <<>>]
        ELSE [st EXCEPT !.current_seq = Append(@, line)]

RECURSIVE FastaLoop(_, _)
FastaLoop(st, lines) ==
    IF lines = <<>> THEN st ELSE FastaLoop(FastaLine(st, Head(lines)), Tail(lines))

parse_fasta(file) ==
    IF ~file.exists THEN EmptyDict
    ELSE FastaStore(FastaLoop(FastaStart, file.lines))

----------------------------------------------------------------------------
(* Configuration *)

\* SPECIES_MAP, in its insertion order (the order .items() iterates in)
SPECIES_MAP ==
    << [code |-> "hsa", name |-> "Human"],
       [code |-> "mmu", name |-> "House mouse"],
       [code |-> "dme", name |-> "Fruit fly"],
       [code |-> "cel", name |-> "Roundworm"] >>

FINAL_COLUMNS ==
    << "MirGeneDB ID", "MiRBase ID", "Family", "Seed", "Chromosome", "Start",
       "End", "Strand", "Precursor sequence", "Mature sequence",
       "Star sequence", "Mature location", "Precursor length",
       "Mature length", "Star length" >>

Range(f) == {f[x] : x \in DOMAIN f}

----------------------------------------------------------------------------
(* resolve_mature and the star logic *)

\* f"{mir_id}_{arm}"
ArmKey(mir_id, arm) == mir_id \o <<"_">> \o arm

\* str(seed_seq).strip() if pd.notna(seed_seq) else ""
SeedText(seed_seq) == IF NotNa(seed_seq) THEN Strip(PyStr(seed_seq)) ELSE <<>>

\* variant: an ambiguous seed falls back to 3p
resolve_mature_fallback_3p(mir_id, seed_seq, fasta_dict) ==
    LET seq_5p == DictGet(fasta_dict, ArmKey(mir_id, ARM_5P))
        seq_3p == DictGet(fasta_dict, ArmKey(mir_id, ARM_3P))
        seed == SeedText(seed_seq)
    IN  IF Truthy(seq_5p) /\ ~Truthy(seq_3p) THEN <<seq_5p, ARM_5P>>
        ELSE IF Truthy(seq_3p) /\ ~Truthy(seq_5p) THEN <<seq_3p, ARM_3P>>
        ELSE IF Truthy(seq_5p) /\ Truthy(seq_3p)
        THEN IF Contains(seq_5p, seed) /\ ~Contains(seq_3p, seed)
             THEN <<seq_5p, ARM_5P>>
             ELSE <<seq_3p, ARM_3P>>
        ELSE <<NA, NA>>

resolve_mature(mir_id, seed_seq, fasta_dict) ==
    LET seq_5p == DictGet(fasta_dict, ArmKey(mir_id, ARM_5P))
        seq_3p == DictGet(fasta_dict, ArmKey(mir_id, ARM_3P))
        seed == SeedText(seed_seq)
    IN  IF Truthy(seq_5p) /\ ~Truthy(seq_3p) THEN <<seq_5p, ARM_5P>>
        ELSE IF Truthy(seq_3p) /\ ~Truthy(seq_5p) THEN <<seq_3p, ARM_3P>>
        ELSE IF Truthy(seq_5p) /\ Truthy(seq_3p)
        THEN IF Contains(seq_5p, seed) /\ ~Contains(seq_3p, seed)
             THEN <<seq_5p, ARM_5P>>
             ELSE IF Contains(seq_3p, seed) /\ ~Contains(seq_5p, seed)
             THEN <<seq_3p, ARM_3P>>
             ELSE <<seq_5p, ARM_5P>>
        ELSE <<NA, NA>>

\* target_star = "3p" if m_loc == "5p" else "5p"
\* variant: "5p" if m_loc == "3p" else "3p", which sends "N/A" to 3p
TargetStar_opposite_of_non_3p(m_loc) == IF m_loc = ARM_3P THEN ARM_5P ELSE ARM_3P

TargetStar(m_loc) == IF m_loc = ARM_5P THEN ARM_3P ELSE ARM_5P

\* variant: the star map asked before the mature map
StarLogic_star_dict_first(mir_id, m_loc, mat, star) ==
    LET star_key == ArmKey(mir_id, TargetStar(m_loc))
        s1 == DictGet(star, star_key)
        s2 == IF ~Truthy(s1) THEN DictGetDefault(mat, star_key, <<>>) ELSE s1
        fallback_key == ArmKey(mir_id, m_loc)
    IN  IF ~Truthy(s2) /\ fallback_key \in DOMAIN star THEN star[fallback_key] ELSE s2

\* variant: star_dict.get(star_key) without the "" default
StarLogic_no_default(mir_id, m_loc, mat, star) ==
    LET star_key == ArmKey(mir_id, TargetStar(m_loc))
        s1 == DictGet(mat, star_key)
        s2 == IF ~Truthy(s1) THEN DictGet(star, star_key) ELSE s1
        fallback_key == ArmKey(mir_id, m_loc)
    IN  IF ~Truthy(s2) /\ fallback_key \in DOMAIN star THEN star[fallback_key] ELSE s2

\* the star sequence of a row, from the resolved arm
StarLogic(mir_id, m_loc, mat, star) ==
    LET star_key == ArmKey(mir_id, TargetStar(m_loc))
        s1 == DictGet(mat, star_key)
        s2 == IF ~Truthy(s1) THEN DictGetDefault(star, star_key, <<>>) ELSE s1
        fallback_key == ArmKey(mir_id, m_loc)
    IN  IF ~Truthy(s2) /\ fallback_key \in DOMAIN star THEN star[fallback_key] ELSE s2

\* lambda x: len(x) if x != "N/A" and x is not None else 0
\* variant: the length without the "N/A" test
SeqLength_no_sentinel(x) == IF x # None THEN Len(x) ELSE 0

SeqLength(x) == IF x # NA /\ x # None THEN Len(x) ELSE 0

----------------------------------------------------------------------------
(* Tables: the columns in order, and the rows as maps from column to cell *)

EmptyTable == [columns |-> <<>>, rows |-> <<>>]

\* the result of pd.read_csv: a table, or an exception
ParseError == [ok |-> FALSE, columns |-> <<>>, rows |-> <<>>]
Parsed(t) == [ok |-> TRUE, columns |-> t.columns, rows |-> t.rows]

\* a CSV file of the data folder: h1 and h0 are what read_csv gives with
\* header=1 and with header=0
MissingCsv == [exists |-> FALSE, h1 |-> ParseError, h0 |-> ParseError]
CsvFile(r1, r0) == [exists |-> TRUE, h1 |-> r1, h0 |-> r0]

\* "MirGeneDB ID" in str(c), over the column names of the model
IdLabelled == {"MirGeneDB ID", "MirGeneDB ID (link)"}
NoColumn == ""

\* next((c for c in df.columns if "MirGeneDB ID" in str(c)), None)
IdColumn(columns) ==
    IF \E i \in 1..Len(columns) : columns[i] \in IdLabelled
    THEN columns[CHOOSE i \in 1..Len(columns) :
                    /\ columns[i] \in IdLabelled
                    /\ \A j \in 1..(i - 1) : columns[j] \notin IdLabelled]
    ELSE NoColumn

\* df.rename(columns={old: new}, inplace=True)
Rename(t, old, new) ==
    [columns |-> [i \in 1..Len(t.columns) |->
                    IF t.columns[i] = old THEN new ELSE t.columns[i]],
     rows |-> [i \in 1..Len(t.rows) |->
                 [c \in (DOMAIN t.rows[i] \ {old}) \cup {new} |->
                    IF c = new THEN t.rows[i][old] ELSE t.rows[i][c]]]]

\* df[c] = values
SetColumn(t, c, values) ==
    [columns |-> IF c \in Range(t.columns) THEN t.columns ELSE Append(t.columns, c),
     rows |-> [i \in 1..Len(t.rows) |-> DictPut(t.rows[i], c, values[i])]]

\* df[dst] = df[src].apply(length)
ApplyLength(t, src, dst) ==
    SetColumn(t, dst, [i \in 1..Len(t.rows) |-> SeqLength(t.rows[i][src])])

\* [c for c in FINAL_COLUMNS if c in df.columns], and df[available_cols]
AvailableCols(t) == SelectSeq(FINAL_COLUMNS, LAMBDA c : c \in Range(t.columns))
Project(t) ==
    LET cols == AvailableCols(t)
    IN  [columns |-> cols,
         rows |-> [i \in 1..Len(t.rows) |-> [c \in Range(cols) |-> t.rows[i][c]]]]

\* row.get(c, default)
RowGet(row, c, default) == IF c \in DOMAIN row THEN row[c] ELSE default

----------------------------------------------------------------------------
(* Inputs of the function-level specifications *)

MIR1 == <<"m", "i", "r", "1">>

IdTokens == {MIR1, <<" ">>, <<"V">>, <<" ", "V">>, <<"\t">>}
RawIds == Concats(IdTokens, MaxIdTokens) \cup {NaN}

HeaderTokens ==
    {MIR1, <<"1">>, <<"*">>, <<">">>, <<" ">>, <<"-">>, <<"_">>, <<"v">>,
     <<"-", "v", "2">>, <<"_", "5", "p">>, <<"_", "3", "p">>,
     <<"_", "p", "r", "e">>}

\* header lines as parse_fasta passes them: stripped, starting with ">"
Headers ==
    {h \in {<<">">> \o b : b \in Concats(HeaderTokens, MaxHeaderTokens)} :
        Strip(h) = h}

FastaLineValues ==
    {<<">", "m">>, <<">", "m", "_", "5", "p">>, <<">", "_", "p", "r", "e">>,
     <<">", "m", "-", "v", "1">>, <<"A", "C">>, <<" ", "G", " ">>, <<>>}

RECURSIVE SeqsUpTo(_, _)
SeqsUpTo(S, n) ==
    IF n = 0 THEN {<<>>}
    ELSE LET prev == SeqsUpTo(S, n - 1)
         IN  prev \cup {Append(p, x) : p \in prev, x \in S}

FastaFiles == {File(ls) : ls \in SeqsUpTo(FastaLineValues, MaxLines)} \cup {MissingFile}

IdleCsvId == [raw |-> <<>>, out |-> <<>>, done |-> TRUE]
IdleHdr == [header |-> <<>>, out |-> <<<<>>, None>>, key |-> <<>>, done |-> TRUE]
IdleFasta ==
    [file |-> MissingFile, i |-> 0, st |-> FastaStart, ret |-> EmptyDict,
     pc |-> "idle"]

NoObs == [seen |-> "nothing", csv |-> MissingCsv,
          pre |-> MissingFile, mature |-> MissingFile, star |-> MissingFile]

IdleRun ==
    /\ pc = "idle"
    /\ sp = 0
    /\ obs = NoObs
    /\ table = EmptyTable
    /\ df = EmptyTable
    /\ pre_dict = EmptyDict
    /\ mat_dict = EmptyDict
    /\ star_dict = EmptyDict
    /\ pre_seqs = <<>>
    /\ mat_seqs = <<>>
    /\ star_seqs = <<>>
    /\ mat_locs = <<>>
    /\ workbook = <<>>
    /\ log = <<>>

----------------------------------------------------------------------------
(* SpecCsvId: clean_csv_id applied to every raw identifier *)

InitCsvId ==
    /\ csvid \in {[raw |-> r, out |-> <<>>, done |-> FALSE] : r \in RawIds}
    /\ hdr = IdleHdr
    /\ fasta = IdleFasta
    /\ IdleRun

CleanCsvId ==
    /\ ~csvid.done
    /\ csvid' = [csvid EXCEPT !.out = clean_csv_id(csvid.raw), !.done = TRUE]
    /\ UNCHANGED <<hdr, fasta, runvars>>

NextCsvId == CleanCsvId

SpecCsvId == InitCsvId /\ [][NextCsvId]_vars

----------------------------------------------------------------------------
(* SpecHeader: clean_fasta_header and the key parse_fasta builds from it *)

InitHeader ==
    /\ hdr \in {[header |-> h, out |-> <<<<>>, None>>, key |-> <<>>, done |-> FALSE] :
                    h \in Headers}
    /\ csvid = IdleCsvId
    /\ fasta = IdleFasta
    /\ IdleRun

CleanFastaHeader ==
    /\ ~hdr.done
    /\ LET r == clean_fasta_header(hdr.header)
       IN  hdr' = [hdr EXCEPT !.out = r, !.key = FastaKey(r[1], r[2]), !.done = TRUE]
    /\ UNCHANGED <<csvid, fasta, runvars>>

NextHeader == CleanFastaHeader

SpecHeader == InitHeader /\ [][NextHeader]_vars

----------------------------------------------------------------------------
(* SpecFasta: parse_fasta, one line per step *)

InitFasta ==
    /\ fasta \in {[file |-> f, i |-> 0, st |-> FastaStart, ret |-> EmptyDict,
                   pc |-> "check"] : f \in FastaFiles}
    /\ csvid = IdleCsvId
    /\ hdr = IdleHdr
    /\ IdleRun

\* if not os.path.exists(file_path): return {}
FastaMissing ==
    /\ fasta.pc = "check"
    /\ ~fasta.file.exists
    /\ fasta' = [fasta EXCEPT !.ret = EmptyDict, !.pc = "done"]
    /\ UNCHANGED <<csvid, hdr, runvars>>

FastaOpen ==
    /\ fasta.pc = "check"
    /\ fasta.file.exists
    /\ fasta' = [fasta EXCEPT !.st = FastaStart, !.pc = "loop"]
    /\ UNCHANGED <<csvid, hdr, runvars>>

FastaReadLine ==
    /\ fasta.pc = "loop"
    /\ fasta.i < Len(fasta.file.lines)
    /\ fasta' = [fasta EXCEPT !.i = @ + 1,
                              !.st = FastaLine(@, fasta.file.lines[fasta.i + 1])]
    /\ UNCHANGED <<csvid, hdr, runvars>>

FastaReturn ==
    /\ fasta.pc = "loop"
    /\ fasta.i = Len(fasta.file.lines)
    /\ fasta' = [fasta EXCEPT !.ret = FastaStore(fasta.st), !.pc = "done"]
    /\ UNCHANGED <<csvid, hdr, runvars>>

NextFasta == FastaMissing \/ FastaOpen \/ FastaReadLine \/ FastaReturn

SpecFasta == InitFasta /\ [][NextFasta]_vars

----------------------------------------------------------------------------
(* The main script *)

Msg(m, code, what) == [msg |-> m, code |-> code, what |-> what]

\* the warnings parse_fasta prints for the files that do not exist
FastaWarnings(code, fp, fm, fs) ==
    (IF fp.exists THEN <<>> ELSE <<Msg("missing_fasta", code, "pre")>>)
    \o (IF fm.exists THEN <<>> ELSE <<Msg("missing_fasta", code, "mature")>>)
    \o (IF fs.exists THEN <<>> ELSE <<Msg("missing_fasta", code, "star")>>)

\* cells and files of the run-level specification
C_M == <<"m">>
C_A == <<"A">>
C_F == <<"F">>

T_ID ==
    [columns |-> <<"MirGeneDB ID", "Seed", "Family">>,
     rows |-> << [c \in {"MirGeneDB ID", "Seed", "Family"} |->
                    CASE c = "MirGeneDB ID" -> C_M
                      [] c = "Seed" -> C_A
                      [] OTHER -> C_F] >>]

T_ID0 ==
    [columns |-> <<"Family", "MirGeneDB ID (link)">>,
     rows |-> << [c \in {"Family", "MirGeneDB ID (link)"} |->
                    IF c = "Family" THEN C_F ELSE <<" ", "m", " ", "V">>] >>]

T_NOID ==
    [columns |-> <<"Unnamed: 0">>,
     rows |-> << [c \in {"Unnamed: 0"} |-> C_F] >>]

RunCsvFiles ==
    { MissingCsv,
      CsvFile(ParseError, Parsed(T_ID)),
      CsvFile(Parsed(T_NOID), ParseError),
      CsvFile(Parsed(T_NOID), Parsed(T_NOID)),
      CsvFile(Parsed(T_ID), Parsed(T_NOID)),
      CsvFile(Parsed(T_NOID), Parsed(T_ID0)) }

RUN_PRE == File(<< <<">", "m", "_", "p", "r", "e">>, <<"A", "C", "G", "U">> >>)
RUN_MATURE == File(<< <<">", "m", "_", "5", "p">>, <<"A", "C">> >>)
RUN_STAR == File(<< <<">", "m", "_", "3", "p", "*">>, <<"G", "U">> >>)

\* print(f"Starting merge..."); with pd.ExcelWriter(...) as writer:
Start ==
    /\ pc = "start"
    /\ pc' = "loop"
    /\ log' = Append(log, Msg("starting", "", ""))
    /\ UNCHANGED <<sp, obs, table, df, pre_dict, mat_dict, star_dict,
                   pre_seqs, mat_seqs, star_seqs, mat_locs, workbook, fnvars>>

\* for code, sheet_name in SPECIES_MAP.items(): print(f"Processing ...")
NextSpecies ==
    /\ pc = "loop"
    /\ sp < Len(SPECIES_MAP)
    /\ sp' = sp + 1
    /\ pc' = "load_csv"
    /\ obs' = NoObs
    /\ log' = Append(log, Msg("processing", SPECIES_MAP[sp + 1].code, ""))
    /\ UNCHANGED <<table, df, pre_dict, mat_dict, star_dict,
                   pre_seqs, mat_seqs, star_seqs, mat_locs, workbook, fnvars>>

\* the skip of a species: print the message and continue
Skip(csv, m) ==
    /\ obs' = [obs EXCEPT !.seen = "csv", !.csv = csv]
    /\ log' = Append(log, Msg(m, SPECIES_MAP[sp].code, ""))
    /\ pc' = "loop"
    /\ UNCHANGED <<sp, table, df, pre_dict, mat_dict, star_dict,
                   pre_seqs, mat_seqs, star_seqs, mat_locs, workbook, fnvars>>

\* df.rename(...) done: go on to the FASTA files
Loaded(csv, t, id_col) ==
    /\ obs' = [obs EXCEPT !.seen = "csv", !.csv = csv]
    /\ df' = Rename(t, id_col, "MirGeneDB ID")
    /\ table' = Rename(t, id_col, "MirGeneDB ID")
    /\ pc' = "load_fasta"
    /\ UNCHANGED <<sp, log, pre_dict, mat_dict, star_dict,
                   pre_seqs, mat_seqs, star_seqs, mat_locs, workbook, fnvars>>

\* variant: read_csv outside the try block, so that its exception ends the run
LoadCsv_abort_on_error ==
    /\ pc = "load_csv"
    /\ \E csv \in RunCsvFiles :
        \/ /\ ~csv.exists
           /\ Skip(csv, "csv_not_found")
        \/ /\ csv.exists
           /\ ~csv.h1.ok
           /\ pc' = "aborted"
           /\ obs' = [obs EXCEPT !.seen = "csv", !.csv = csv]
           /\ UNCHANGED <<sp, log, table, df, pre_dict, mat_dict, star_dict,
                          pre_seqs, mat_seqs, star_seqs, mat_locs, workbook, fnvars>>
        \/ /\ csv.exists
           /\ csv.h1.ok
           /\ IdColumn(csv.h1.columns) # NoColumn
           /\ Loaded(csv, csv.h1, IdColumn(csv.h1.columns))
        \/ /\ csv.exists
           /\ csv.h1.ok
           /\ IdColumn(csv.h1.columns) = NoColumn
           /\ \/ /\ ~csv.h0.ok
                 /\ Skip(csv, "read_error")
              \/ /\ csv.h0.ok
                 /\ IdColumn(csv.h0.columns) = NoColumn
                 /\ Skip(csv, "id_missing")
              \/ /\ csv.h0.ok
                 /\ IdColumn(csv.h0.columns) # NoColumn
                 /\ Loaded(csv, csv.h0, IdColumn(csv.h0.columns))

\* 1. Load CSV: the file of the data folder is whatever the folder holds
LoadCsv ==
    /\ pc = "load_csv"
    /\ \E csv \in RunCsvFiles :
        \/ /\ ~csv.exists
           /\ Skip(csv, "csv_not_found")
        \/ /\ csv.exists
           /\ ~csv.h1.ok
           /\ Skip(csv, "read_error")
        \/ /\ csv.exists
           /\ csv.h1.ok
           /\ IdColumn(csv.h1.columns) # NoColumn
           /\ Loaded(csv, csv.h1, IdColumn(csv.h1.columns))
        \/ /\ csv.exists
           /\ csv.h1.ok
           /\ IdColumn(csv.h1.columns) = NoColumn
           /\ \/ /\ ~csv.h0.ok
                 /\ Skip(csv, "read_error")
              \/ /\ csv.h0.ok
                 /\ IdColumn(csv.h0.columns) = NoColumn
                 /\ Skip(csv, "id_missing")
              \/ /\ csv.h0.ok
                 /\ IdColumn(csv.h0.columns) # NoColumn
                 /\ Loaded(csv, csv.h0, IdColumn(csv.h0.columns))

\* 2. Load FASTAs, and the empty lists of step 3
LoadFastas ==
    /\ pc = "load_fasta"
    /\ \E fp \in {MissingFile, RUN_PRE}, fm \in {MissingFile, RUN_MATURE},
          fs \in {MissingFile, RUN_STAR} :
        /\ pre_dict' = parse_fasta(fp)
        /\ mat_dict' = parse_fasta(fm)
        /\ star_dict' = parse_fasta(fs)
        /\ obs' = [obs EXCEPT !.seen = "fasta", !.pre = fp, !.mature = fm, !.star = fs]
        /\ log' = log \o FastaWarnings(SPECIES_MAP[sp].code, fp, fm, fs)
    /\ pre_seqs' = <<>>
    /\ mat_seqs' = <<>>
    /\ star_seqs' = <<>>
    /\ mat_locs' = <<>>
    /\ pc' = "rows"
    /\ UNCHANGED <<sp, table, df, workbook, fnvars>>

\* variant: the values of a row put at the front of the lists
RowStep_prepend ==
    /\ pc = "rows"
    /\ Len(pre_seqs) < Len(df.rows)
    /\ LET row == df.rows[Len(pre_seqs) + 1]
           mir_id == clean_csv_id(row["MirGeneDB ID"])
           seed == RowGet(row, "Seed", <<>>)
           m == resolve_mature(mir_id, seed, mat_dict)
       IN  /\ pre_seqs' = <<DictGetDefault(pre_dict, mir_id, NA)>> \o pre_seqs
           /\ mat_seqs' = <<m[1]>> \o mat_seqs
           /\ mat_locs' = <<m[2]>> \o mat_locs
           /\ star_seqs' = <<StarLogic(mir_id, m[2], mat_dict, star_dict)>> \o star_seqs
    /\ UNCHANGED <<pc, sp, obs, table, df, pre_dict, mat_dict, star_dict,
                   workbook, log, fnvars>>

\* 3. Build Data Lists: one iteration of "for index, row in df.iterrows()"
RowStep ==
    /\ pc = "rows"
    /\ Len(pre_seqs) < Len(df.rows)
    /\ LET row == df.rows[Len(pre_seqs) + 1]
           mir_id == clean_csv_id(row["MirGeneDB ID"])
           seed == RowGet(row, "Seed", <<>>)
           m == resolve_mature(mir_id, seed, mat_dict)
       IN  /\ pre_seqs' = Append(pre_seqs, DictGetDefault(pre_dict, mir_id, NA))
           /\ mat_seqs' = Append(mat_seqs, m[1])
           /\ mat_locs' = Append(mat_locs, m[2])
           /\ star_seqs' = Append(star_seqs,
                                  StarLogic(mir_id, m[2], mat_dict, star_dict))
    /\ UNCHANGED <<pc, sp, obs, table, df, pre_dict, mat_dict, star_dict,
                   workbook, log, fnvars>>

\* 4. Assign & Calc Lengths, after the last row
AssignLengths ==
    /\ pc = "rows"
    /\ Len(pre_seqs) = Len(df.rows)
    /\ LET d1 == SetColumn(df, "Precursor sequence", pre_seqs)
           d2 == SetColumn(d1, "Mature sequence", mat_seqs)
           d3 == SetColumn(d2, "Star sequence", star_seqs)
           d4 == SetColumn(d3, "Mature location", mat_locs)
           d5 == ApplyLength(d4, "Precursor sequence", "Precursor length")
           d6 == ApplyLength(d5, "Mature sequence", "Mature length")
       IN  df' = ApplyLength(d6, "Star sequence", "Star length")
    /\ pc' = "save"
    /\ UNCHANGED <<sp, obs, table, pre_dict, mat_dict, star_dict,
                   pre_seqs, mat_seqs, star_seqs, mat_locs, workbook, log, fnvars>>

\* 5. Filter Columns and 6. Save: the sheet is added to the workbook
Save ==
    /\ pc = "save"
    /\ workbook' = Append(workbook,
                          [name |-> SPECIES_MAP[sp].name, sheet |-> Project(df)])
    /\ pc' = "loop"
    /\ UNCHANGED <<sp, obs, table, df, pre_dict, mat_dict, star_dict,
                   pre_seqs, mat_seqs, star_seqs, mat_locs, log, fnvars>>

\* the loop is exhausted: the writer is closed and "Done!" printed
Finish ==
    /\ pc = "loop"
    /\ sp = Len(SPECIES_MAP)
    /\ pc' = "done"
    /\ log' = Append(log, Msg("done", "", ""))
    /\ UNCHANGED <<sp, obs, table, df, pre_dict, mat_dict, star_dict,
                   pre_seqs, mat_seqs, star_seqs, mat_locs, workbook, fnvars>>

----------------------------------------------------------------------------
(* SpecRun: the whole script over every kind of data folder *)

InitRun ==
    /\ pc = "start"
    /\ sp = 0
    /\ obs = NoObs
    /\ table = EmptyTable
    /\ df = EmptyTable
    /\ pre_dict = EmptyDict
    /\ mat_dict = EmptyDict
    /\ star_dict = EmptyDict
    /\ pre_seqs = <<>>
    /\ mat_seqs = <<>>
    /\ star_seqs = <<>>
    /\ mat_locs = <<>>
    /\ workbook = <<>>
    /\ log = <<>>
    /\ csvid = IdleCsvId
    /\ hdr = IdleHdr
    /\ fasta = IdleFasta

NextRun ==
    \/ Start
    \/ NextSpecies
    \/ LoadCsv
    \/ LoadFastas
    \/ RowStep
    \/ AssignLengths
    \/ Save
    \/ Finish

SpecRun == InitRun /\ [][NextRun]_vars

----------------------------------------------------------------------------
(* SpecRow: the row loop, the assignment and the save of one species, from  *)
(* the point where its table and its three maps are loaded: one row, over   *)
(* every content of the maps.  obs is not tracked here.                     *)

Nucleotides == {"A", "C"}
MatValues == SeqsUpTo(Nucleotides, MaxSeqLen)
StarValues == {<<>>, <<"G">>}
PreValues == {<<>>, <<"A", "C", "G">>, NA}
SeedValues == {NaN, <<>>, <<"A">>, <<"C">>, <<" ", "A", " ">>, <<"A", "C">>}

K_5P == ArmKey(C_M, ARM_5P)
K_3P == ArmKey(C_M, ARM_3P)
K_NA == ArmKey(C_M, NA)

\* the dictionaries with keys among keys and values among values
DictsOver(keys, values) == UNION {[ks -> values] : ks \in SUBSET keys}

RowTable(seed_cell) ==
    [columns |-> <<"MirGeneDB ID", "Seed", "Family">>,
     rows |-> << [c \in {"MirGeneDB ID", "Seed", "Family"} |->
                    CASE c = "MirGeneDB ID" -> C_M
                      [] c = "Seed" -> seed_cell
                      [] OTHER -> C_F] >>]

RowTableNoSeed ==
    [columns |-> <<"MirGeneDB ID", "Family">>,
     rows |-> << [c \in {"MirGeneDB ID", "Family"} |->
                    IF c = "MirGeneDB ID" THEN C_M ELSE C_F] >>]

RowTables == {RowTable(sd) : sd \in SeedValues} \cup {RowTableNoSeed}

InitRow ==
    /\ pc = "rows"
    /\ sp = 1
    /\ obs = NoObs
    /\ table \in RowTables
    /\ df = table
    /\ pre_dict \in DictsOver({C_M}, PreValues)
    /\ mat_dict \in DictsOver({K_5P, K_3P}, MatValues)
    /\ star_dict \in DictsOver({K_5P, K_3P, K_NA}, StarValues)
    /\ pre_seqs = <<>>
    /\ mat_seqs = <<>>
    /\ star_seqs = <<>>
    /\ mat_locs = <<>>
    /\ workbook = <<>>
    /\ log = <<Msg("starting", "", ""), Msg("processing", SPECIES_MAP[1].code, "")>>
    /\ csvid = IdleCsvId
    /\ hdr = IdleHdr
    /\ fasta = IdleFasta

NextRow == RowStep \/ AssignLengths \/ Save

SpecRow == InitRow /\ [][NextRow]_vars

----------------------------------------------------------------------------
(* SpecSheet: the same steps over tables of several rows, with the maps     *)
(* parsed from FASTA files.                                                 *)

C_N_V == <<"n", " ", "V">>
C_GA == <<"G", "A">>
C_X == <<"X">>

SHEET_PRE ==
    File(<< <<">", "m", "_", "p", "r", "e">>, <<"A", "C", "G", "A">>,
            <<">", "n", "_", "p", "r", "e">>, <<"C", "U">> >>)
SHEET_MATURE ==
    File(<< <<">", "m", "_", "5", "p">>, <<"A", "C">>,
            <<">", "m", "_", "3", "p">>, <<"G", "A">>,
            <<">", "n", "_", "3", "p">>, <<"U">> >>)
SHEET_STAR ==
    File(<< <<">", "m", "_", "3", "p", "*">>, <<"G", "G">>,
            <<">", "n", "_", "5", "p", "*">>, <<"C">> >>)

SheetRow(id, seed_cell) ==
    [c \in {"MirGeneDB ID", "Seed", "Family", "Node"} |->
        CASE c = "MirGeneDB ID" -> id
          [] c = "Seed" -> seed_cell
          [] c = "Family" -> C_F
          [] OTHER -> C_X]

SheetRowNoSeed(id) ==
    [c \in {"MirGeneDB ID", "Family", "Node"} |->
        CASE c = "MirGeneDB ID" -> id
          [] c = "Family" -> C_F
          [] OTHER -> C_X]

SheetTables ==
    {[columns |-> <<"MirGeneDB ID", "Seed", "Family", "Node">>, rows |-> rs] :
        rs \in SeqsUpTo({SheetRow(id, sd) : id \in {C_M, C_N_V}, sd \in {C_GA, NaN}},
                        MaxRows)}
    \cup
    {[columns |-> <<"MirGeneDB ID", "Family", "Node">>, rows |-> rs] :
        rs \in SeqsUpTo({SheetRowNoSeed(id) : id \in {C_M, C_N_V}}, MaxRows)}

InitSheet ==
    /\ pc = "rows"
    /\ sp = 1
    /\ table \in SheetTables
    /\ df = table
    /\ \E fp \in {MissingFile, SHEET_PRE}, fm \in {MissingFile, SHEET_MATURE},
          fs \in {MissingFile, SHEET_STAR} :
        /\ pre_dict = parse_fasta(fp)
        /\ mat_dict = parse_fasta(fm)
        /\ star_dict = parse_fasta(fs)
        /\ obs = [seen |-> "fasta", csv |-> CsvFile(Parsed(table), ParseError),
                  pre |-> fp, mature |-> fm, star |-> fs]
        /\ log = <<Msg("starting", "", ""), Msg("processing", SPECIES_MAP[1].code, "")>>
                    \o FastaWarnings(SPECIES_MAP[1].code, fp, fm, fs)
    /\ pre_seqs = <<>>
    /\ mat_seqs = <<>>
    /\ star_seqs = <<>>
    /\ mat_locs = <<>>
    /\ workbook = <<>>
    /\ csvid = IdleCsvId
    /\ hdr = IdleHdr
    /\ fasta = IdleFasta

NextSheet == RowStep \/ AssignLengths \/ Save

SpecSheet == InitSheet /\ [][NextSheet]_vars

----------------------------------------------------------------------------
(* Claims about clean_csv_id (SpecCsvId) *)

SPACE_V == <<" ", "V">>
MIR1_V == MIR1 \o SPACE_V
MIR1_VV == MIR1 \o <<" ", "V", "V">>
MIR1_V_V == MIR1 \o SPACE_V \o SPACE_V

\* The general rule of C3: the result is the stripped string of the identifier
\* with a trailing " V" removed once if it is there, and unchanged otherwise.
CsvIdRule ==
    LET s == Strip(PyStr(csvid.raw))
    IN  \E suf \in {<<>>, SPACE_V} :
            /\ s = csvid.out \o suf
            /\ suf = <<>> => ~EndsWith(s, SPACE_V)

\* C3 as stated: clean_csv_id strips whitespace and then a trailing " V" exactly
\* once; "mir1 V" becomes "mir1" and "mir1 VV" becomes "mir1 V".
C3_AsStated ==
    csvid.done =>
        /\ CsvIdRule
        /\ csvid.raw = MIR1_V => csvid.out = MIR1
        /\ csvid.raw = MIR1_VV => csvid.out = MIR1_V

\* C3 amended: clean_csv_id strips whitespace and then a trailing " V" exactly
\* once; "mir1 V" becomes "mir1", "mir1 V V" becomes "mir1 V", and "mir1 VV",
\* which does not end in " V", is returned unchanged.
C3_StripOnce ==
    csvid.done =>
        /\ CsvIdRule
        /\ csvid.raw = MIR1_V => csvid.out = MIR1
        /\ csvid.raw = MIR1_V_V => csvid.out = MIR1_V
        /\ csvid.raw = MIR1_VV => csvid.out = MIR1_VV

C3_Witness == csvid.done /\ csvid.raw = MIR1_V_V /\ csvid.out = MIR1_V

----------------------------------------------------------------------------
(* Claims about clean_fasta_header (SpecHeader) *)

\* position j of s lies in a version tag: a "-" or "_", then "v", then a
\* maximal run of digits
InVersionTag(s, j) ==
    \E i \in 1..j :
        /\ i + 2 <= Len(s)
        /\ s[i] \in {"-", "_"}
        /\ s[i + 1] = "v"
        /\ s[i + 2] \in Digits
        /\ j <= i + 1 \/ \A k \in (i + 2)..j : s[k] \in Digits

WithoutVersionTags(s) ==
    KeepPositions(s, {j \in 1..Len(s) : ~InVersionTag(s, j)})

HeaderIdent(header) ==
    WithoutVersionTags(SelectSeq(header, LAMBDA c : c \notin {">", "*"}))

SUF_5P == <<"_", "5", "p">>
SUF_3P == <<"_", "3", "p">>
SUF_PRE == <<"_", "p", "r", "e">>

\* C4: the storage key of a header is its identifier without '>' and '*' and
\* without the version tags; a trailing _5p or _3p gives base_5p or base_3p, a
\* trailing _pre gives the base without _pre and no arm tag, anything else the
\* identifier unchanged; ">mir1-v2_5p" gives "mir1_5p".
C4_HeaderKey ==
    hdr.done =>
        LET ident == HeaderIdent(hdr.header)
        IN  /\ EndsWith(ident, SUF_5P) =>
                /\ hdr.out = <<DropLast(ident, 3), ARM_5P>>
                /\ hdr.key = DropLast(ident, 3) \o SUF_5P
            /\ EndsWith(ident, SUF_3P) =>
                /\ hdr.out = <<DropLast(ident, 3), ARM_3P>>
                /\ hdr.key = DropLast(ident, 3) \o SUF_3P
            /\ EndsWith(ident, SUF_PRE) =>
                /\ hdr.out = <<DropLast(ident, 4), None>>
                /\ hdr.key = DropLast(ident, 4)
            /\ ~(EndsWith(ident, SUF_5P) \/ EndsWith(ident, SUF_3P)
                    \/ EndsWith(ident, SUF_PRE)) =>
                /\ hdr.out = <<ident, None>>
                /\ hdr.key = ident
            /\ hdr.header = <<">">> \o MIR1 \o <<"-", "v", "2">> \o SUF_5P =>
                hdr.key = MIR1 \o SUF_5P

C4_Witness ==
    /\ hdr.done
    /\ hdr.header = <<">">> \o MIR1 \o <<"-", "v", "2">> \o SUF_5P
    /\ hdr.key = MIR1 \o SUF_5P

----------------------------------------------------------------------------
(* Claims about parse_fasta (SpecFasta) *)

IsHeaderLine(l) == Strip(l) # <<>> /\ Head(Strip(l)) = ">"
IsSeqLine(l) == Strip(l) # <<>> /\ Head(Strip(l)) # ">"

HeaderLines(lines) == {i \in 1..Len(lines) : IsHeaderLine(lines[i])}

\* the stripped sequence lines strictly between positions a and b, joined
Between(lines, a, b) ==
    LET F[j \in a..Len(lines)] ==
            IF j = a THEN <<>>
            ELSE IF IsSeqLine(lines[j]) THEN F[j - 1] \o Strip(lines[j]) ELSE F[j - 1]
    IN  IF b - 1 > a THEN F[b - 1] ELSE <<>>

\* the map the claim describes, over the header lines whose key is in keys
DescribedMap(lines, keys) ==
    LET H == HeaderLines(lines)
        last(k) == CHOOSE h \in H :
                      /\ HeaderKey(Strip(lines[h])) = k
                      /\ \A g \in H : HeaderKey(Strip(lines[g])) = k => g <= h
        next(h) == IF \E g \in H : g > h
                   THEN CHOOSE g \in H : g > h /\ \A e \in H : e > h => g <= e
                   ELSE Len(lines) + 1
    IN  [k \in keys |-> Between(lines, last(k), next(last(k)))]

AllKeys(lines) == {HeaderKey(Strip(lines[i])) : i \in HeaderLines(lines)}

\* C9: parse_fasta returns a map whose keys are exactly the normalized keys of
\* the header lines, each with the joined sequence lines that follow the last
\* header of that key up to the next header or the end of input.
C9_AllHeadersStored ==
    (fasta.pc = "done" /\ fasta.file.exists) =>
        fasta.ret = DescribedMap(fasta.file.lines, AllKeys(fasta.file.lines))

\* What the code does instead: the same map, without the header lines whose
\* normalized key is the empty string.
FastaNonEmptyKeysStored ==
    (fasta.pc = "done" /\ fasta.file.exists) =>
        fasta.ret = DescribedMap(fasta.file.lines,
                                 AllKeys(fasta.file.lines) \ {<<>>})

----------------------------------------------------------------------------
(* Claims about the rows of one species (SpecRow, SpecSheet) *)

\* the inputs of the i-th processed row: its normalized identifier and its
\* seed motif (empty when the column or the cell is absent or blank)
RowId(i) == clean_csv_id(table.rows[i]["MirGeneDB ID"])
RowSeed(i) ==
    LET row == table.rows[i]
    IN  IF "Seed" \notin DOMAIN row \/ row["Seed"] = NaN THEN <<>>
        ELSE Strip(row["Seed"])

\* the key is in the map with a non-empty sequence
Present(d, k) == k \in DOMAIN d /\ d[k] # <<>>

\* the motif occurs in the sequence
Occurs(motif, seq) ==
    \E a \in 0..Len(seq) : \E b \in a..Len(seq) : SubSeq(seq, a + 1, b) = motif

\* C1: resolve_mature follows the rule table: one arm present gives that arm;
\* both present gives the arm that alone contains the seed, and 5p when both
\* or neither contain it; neither present gives ("N/A", "N/A"); the arm is one
\* of 5p, 3p, "N/A" and the sequence is the mature map's entry for that arm.
C1_ResolveMature ==
    \A i \in 1..Len(mat_seqs) :
        LET k5 == ArmKey(RowId(i), ARM_5P)
            k3 == ArmKey(RowId(i), ARM_3P)
            p5 == Present(mat_dict, k5)
            p3 == Present(mat_dict, k3)
            got == <<mat_seqs[i], mat_locs[i]>>
        IN  /\ (p5 /\ ~p3) => got = <<mat_dict[k5], ARM_5P>>
            /\ (p3 /\ ~p5) => got = <<mat_dict[k3], ARM_3P>>
            /\ (p5 /\ p3) =>
                LET in5 == Occurs(RowSeed(i), mat_dict[k5])
                    in3 == Occurs(RowSeed(i), mat_dict[k3])
                IN  /\ (in5 /\ ~in3) => got = <<mat_dict[k5], ARM_5P>>
                    /\ (in3 /\ ~in5) => got = <<mat_dict[k3], ARM_3P>>
                    /\ (in5 <=> in3) => got = <<mat_dict[k5], ARM_5P>>
            /\ (~p5 /\ ~p3) => got = <<NA, NA>>
            /\ mat_locs[i] \in {ARM_5P, ARM_3P, NA}
            /\ mat_locs[i] \in {ARM_5P, ARM_3P} =>
                mat_seqs[i] = mat_dict[ArmKey(RowId(i), mat_locs[i])]

\* both arms present, the seed only in the 3p sequence: resolved to 3p
C1_Witness ==
    /\ Len(mat_locs) = 1
    /\ Present(mat_dict, K_5P)
    /\ Present(mat_dict, K_3P)
    /\ RowSeed(1) # <<>>
    /\ Occurs(RowSeed(1), mat_dict[K_3P])
    /\ ~Occurs(RowSeed(1), mat_dict[K_5P])
    /\ mat_locs[1] = ARM_3P

Opposite(arm) == IF arm = ARM_5P THEN ARM_3P ELSE ARM_5P

\* C2: for a row resolved to 5p or 3p, with t the opposite arm, the star
\* sequence is M[id_t] if present and non-empty, else S[id_t] if present and
\* non-empty, else S[id_m_loc] if that key exists, else the empty string.
C2_StarPriority ==
    \A i \in 1..Len(star_seqs) :
        mat_locs[i] \in {ARM_5P, ARM_3P} =>
            LET kt == ArmKey(RowId(i), Opposite(mat_locs[i]))
                km == ArmKey(RowId(i), mat_locs[i])
            IN  star_seqs[i] =
                    IF Present(mat_dict, kt) THEN mat_dict[kt]
                    ELSE IF Present(star_dict, kt) THEN star_dict[kt]
                    ELSE IF km \in DOMAIN star_dict THEN star_dict[km]
                    ELSE <<>>

\* the third lookup decides: resolved to 5p, nothing under id_3p in either
\* map, and the star map's id_5p entry becomes the star sequence
C2_Witness ==
    /\ Len(star_seqs) = 1
    /\ mat_locs[1] = ARM_5P
    /\ ~Present(mat_dict, K_3P)
    /\ ~Present(star_dict, K_3P)
    /\ Present(star_dict, K_5P)
    /\ star_seqs[1] = star_dict[K_5P]

\* C8 as stated: when the resolved arm is "N/A" the star lookups are made
\* under id_3p, so a star map that contains id_3p yields that sequence.
C8_AsStated ==
    \A i \in 1..Len(star_seqs) :
        (mat_locs[i] = NA /\ ArmKey(RowId(i), ARM_3P) \in DOMAIN star_dict) =>
            star_seqs[i] = star_dict[ArmKey(RowId(i), ARM_3P)]

\* C8 amended: when the resolved arm is "N/A" the star target arm is 5p: the
\* star sequence is S[id_5p] if present and non-empty, else S[id_N/A] if that
\* key exists, else the empty string; an entry under id_3p is not consulted.
C8_TargetOfNA ==
    \A i \in 1..Len(star_seqs) :
        mat_locs[i] = NA =>
            LET k5 == ArmKey(RowId(i), ARM_5P)
                kna == ArmKey(RowId(i), NA)
            IN  star_seqs[i] =
                    IF Present(star_dict, k5) THEN star_dict[k5]
                    ELSE IF kna \in DOMAIN star_dict THEN star_dict[kna]
                    ELSE <<>>

\* resolved to "N/A", the star map holds both arms, and id_5p's is taken
C8_Witness ==
    /\ Len(star_seqs) = 1
    /\ mat_locs[1] = NA
    /\ Present(star_dict, K_5P)
    /\ K_3P \in DOMAIN star_dict
    /\ star_dict[K_3P] # star_dict[K_5P]
    /\ star_seqs[1] = star_dict[K_5P]

\* the rows of the species' sheet once it is written
Processed == pc = "loop" /\ Len(workbook) = 1
SheetRows == workbook[1].sheet.rows

\* C10: after a species is processed every record has its three sequence
\* fields set to a string: the precursor is P[id] or "N/A", the mature a
\* sequence of the mature map or "N/A", the star a sequence or the empty
\* string; none is left unset.
C10_FieldsSet ==
    Processed =>
        /\ Len(SheetRows) = Len(table.rows)
        /\ \A i \in 1..Len(SheetRows) :
            LET row == SheetRows[i]
            IN  /\ {"Precursor sequence", "Mature sequence", "Star sequence"}
                        \subseteq DOMAIN row
                /\ row["Precursor sequence"] # None
                /\ row["Mature sequence"] # None
                /\ row["Star sequence"] # None
                /\ row["Precursor sequence"] =
                        IF RowId(i) \in DOMAIN pre_dict THEN pre_dict[RowId(i)] ELSE NA
                /\ row["Mature sequence"] \in Range(mat_dict) \cup {NA}
                /\ row["Star sequence"] \in
                        Range(mat_dict) \cup Range(star_dict) \cup {<<>>}

\* empty mature and star maps and an empty precursor sequence
C10_Witness ==
    /\ Processed
    /\ mat_dict = EmptyDict
    /\ star_dict = EmptyDict
    /\ SheetRows[1]["Precursor sequence"] = <<>>
    /\ SheetRows[1]["Mature sequence"] = NA
    /\ SheetRows[1]["Star sequence"] = <<>>

LengthOf == 
    [c \in {"Precursor sequence", "Mature sequence", "Star sequence"} |->
        CASE c = "Precursor sequence" -> "Precursor length"
          [] c = "Mature sequence" -> "Mature length"
          [] OTHER -> "Star length"]

\* C7: in every output record each length field is the character count of its
\* sequence field, and 0 when that field is "N/A", empty or has no value.
C7_Lengths ==
    \A s \in 1..Len(workbook) :
        \A i \in 1..Len(workbook[s].sheet.rows) :
            LET row == workbook[s].sheet.rows[i]
            IN  \A c \in DOMAIN LengthOf :
                    /\ LengthOf[c] \in DOMAIN row
                    /\ row[LengthOf[c]] =
                        IF row[c] \in {NA, <<>>, None} THEN 0
                        ELSE Cardinality(DOMAIN row[c])

\* a record with a three-character precursor and a "N/A" mature sequence
C7_Witness ==
    /\ Processed
    /\ SheetRows[1]["Precursor sequence"] = <<"A", "C", "G">>
    /\ SheetRows[1]["Precursor length"] = 3
    /\ SheetRows[1]["Mature sequence"] = NA
    /\ SheetRows[1]["Mature length"] = 0
    /\ SheetRows[1]["Star sequence"] = <<"G">>
    /\ SheetRows[1]["Star length"] = 1

\* C5: the sheet of a species has one row per row of the loaded table, in the
\* same order: the i-th row carries the i-th table row's fields and the
\* precursor, mature, star and mature-location values of that row's
\* identifier and seed.
C5_RowOrder ==
    \A s \in 1..Len(workbook) :
        LET out == workbook[s].sheet.rows
        IN  /\ Len(out) = Len(table.rows)
            /\ \A i \in 1..Len(out) :
                LET in == table.rows[i]
                    seed == RowGet(in, "Seed", <<>>)
                    m == resolve_mature(RowId(i), seed, mat_dict)
                IN  /\ \A c \in DOMAIN in \cap Range(FINAL_COLUMNS) :
                        c \in DOMAIN out[i] /\ out[i][c] = in[c]
                    /\ out[i]["Precursor sequence"] =
                            DictGetDefault(pre_dict, RowId(i), NA)
                    /\ out[i]["Mature sequence"] = m[1]
                    /\ out[i]["Mature location"] = m[2]
                    /\ out[i]["Star sequence"] =
                            StarLogic(RowId(i), m[2], mat_dict, star_dict)

\* two rows: the first with both arms and the seed only in the 3p sequence,
\* the second with only a 3p sequence; each keeps its own place and values
C5_Witness ==
    /\ Processed
    /\ Len(SheetRows) = 2
    /\ SheetRows[1]["MirGeneDB ID"] = C_M
    /\ SheetRows[1]["Mature location"] = ARM_3P
    /\ SheetRows[1]["Mature sequence"] = <<"G", "A">>
    /\ SheetRows[1]["Star sequence"] = <<"A", "C">>
    /\ SheetRows[2]["MirGeneDB ID"] = C_N_V
    /\ SheetRows[2]["Mature location"] = ARM_3P
    /\ SheetRows[2]["Mature sequence"] = <<"U">>
    /\ SheetRows[2]["Star sequence"] = <<"C">>

----------------------------------------------------------------------------
(* Claims about the whole run (SpecRun) *)

SkipMessages == {"csv_not_found", "read_error", "id_missing"}

\* species k has been dealt with: its iteration of the loop is over
Finished(k) == k < sp \/ (k = sp /\ pc \in {"loop", "done"})

Skipped(k) ==
    \E j \in 1..Len(log) :
        log[j].code = SPECIES_MAP[k].code /\ log[j].msg \in SkipMessages

HasSheet(k) == \E s \in 1..Len(workbook) : workbook[s].name = SPECIES_MAP[k].name

SheetNames == [s \in 1..Len(workbook) |-> workbook[s].name]

\* the species whose iteration is over and was not skipped, in registry order
ExpectedSheetNames ==
    LET idx == [k \in 1..Len(SPECIES_MAP) |-> k]
        kept == SelectSeq(idx, LAMBDA k : Finished(k) /\ ~Skipped(k))
    IN  [i \in 1..Len(kept) |-> SPECIES_MAP[kept[i]].name]

\* the folder's table loads with an identifier column: the file exists, reads
\* with the second row as header, and has the column under that reading or,
\* read again, under the first-row reading
LoadsWithIdColumn(csv) ==
    /\ csv.exists
    /\ csv.h1.ok
    /\ \/ \E i \in 1..Len(csv.h1.columns) : csv.h1.columns[i] \in IdLabelled
       \/ /\ csv.h0.ok
          /\ \E i \in 1..Len(csv.h0.columns) : csv.h0.columns[i] \in IdLabelled

ProcessingCodes ==
    LET p == SelectSeq(log, LAMBDA e : e.msg = "processing")
    IN  [i \in 1..Len(p) |-> p[i].code]

\* the positions of the script from which it goes on, and its end: an
\* exception that nothing catches leaves them
RunPositions == {"start", "loop", "load_csv", "load_fasta", "rows", "save", "done"}

\* C6: whatever fails for a species (table missing, unparsable, without an
\* identifier column; FASTA files missing), the run visits the four species
\* in registry order and completes; a species has a sheet exactly when its
\* table loaded with an identifier column; a missing FASTA file gives an empty
\* map and never costs the sheet; the sheets are in registry order.
C6_RunCompletes ==
    /\ pc \in RunPositions
    /\ pc = "done" => ProcessingCodes = <<"hsa", "mmu", "dme", "cel">>
    /\ SheetNames = ExpectedSheetNames
    /\ (pc = "loop" /\ sp >= 1) => (HasSheet(sp) <=> LoadsWithIdColumn(obs.csv))
    /\ obs.seen = "fasta" =>
        /\ ~obs.pre.exists => pre_dict = EmptyDict
        /\ ~obs.mature.exists => mat_dict = EmptyDict
        /\ ~obs.star.exists => star_dict = EmptyDict
        /\ pc = "loop" => HasSheet(sp)

HasMessage(m, code, what) ==
    \E j \in 1..Len(log) : log[j] = Msg(m, code, what)

\* every kind of failure, one per species, and then a sheet for the last
\* species although its three FASTA files are missing
C6_Witness ==
    /\ pc = "done"
    /\ HasMessage("read_error", "hsa", "")
    /\ HasMessage("id_missing", "mmu", "")
    /\ HasMessage("csv_not_found", "dme", "")
    /\ HasMessage("missing_fasta", "cel", "pre")
    /\ HasMessage("missing_fasta", "cel", "mature")
    /\ HasMessage("missing_fasta", "cel", "star")
    /\ SheetNames = <<"Roundworm">>

====
